---- MODULE Spec2Model ----
(***************************************************************************)
(* A model of treyktw/transcribe:                                          *)
(*   src/async-transcribe.py    AudioChunkProcessor (chunked pipeline)     *)
(*   src/transcribe.py          AudioProcessor (single-pass pipeline)      *)
(*   src/transcriptFormatter.py TranscriptFormatter / TranscriptWatcher    *)
(*                                                                         *)
(* Times are integers (the sources use floating-point seconds).  A         *)
(* resolved segment carries speaker, start and end; its text and its       *)
(* formatted timestamp are copied from the transcribed segment and take    *)
(* no part in matching, merging, sorting or persisting.                    *)
(***************************************************************************)
EXTENDS Integers, Sequences, FiniteSets, TLC

\* ------------------------------------------------------------------ bounds

\* Window-relative times reported by the collaborators range over 0..MaxTime.
MaxTime == 2
\* The most speaker turns one diarization call returns.
MaxTurns == 2
\* Chunks 0..MaxChunkIndex of a recording are offered to one process_chunk call.
MaxChunkIndex == 1
\* The longest recording of a pipeline run spans MaxWindows windows.
MaxWindows == 2
\* The most segments one transcription call of a pipeline run returns.
MaxSegs == 2

\* A watched JSON file is written at most MaxMtime times.
MaxMtime == 3
\* The most filesystem events waiting for the handler thread.
MaxPending == 2

\* The most speaker turns the diarizer returns in a single-pass run.
MaxIntroTurns == 2
\* The most person names the name extraction returns.
MaxNames == 2

\* The most segments of a timeline that is rendered to text.
MaxRenderSegs == 3

\* ------------------------------------------------------- program constants

\* AudioChunkProcessor(AUTH_TOKEN, chunk_size_mins=10)
chunk_size_mins == 10
\* find_speaker_introductions(self, transcription, speaker_segments, intro_duration=30)
intro_duration == 30

\* ----------------------------------------------------------------- helpers

Max(a, b) == IF a >= b THEN a ELSE b
Min(a, b) == IF a <= b THEN a ELSE b

SeqsUpTo(S, n) == UNION {[1..m -> S] : m \in 0..n}

\* Python's None, as a value comparable with the speaker strings.
None == "None"
\* Python truthiness of a speaker value: None and the empty string are falsy.
Truthy(x) == x # None /\ x # ""

\* The diarizer's speaker tags, listed in Python's string order.
TagOrder == <<"SPEAKER_00", "SPEAKER_01">>
Tags == {TagOrder[i] : i \in 1..Len(TagOrder)}

\* [start, end) intervals with end > start, as both collaborators report them.
Intervals == {iv \in [start : 0..MaxTime, end : 0..MaxTime] : iv.start < iv.end}
Turns == [speaker : Tags, start : 0..MaxTime, end : 0..MaxTime]
ValidTurns == {t \in Turns : t.start < t.end}

\* speaker_names = {}
EmptyMap == [t \in {} |-> ""]

\* A collaborator call either returns a value or raises.
Returned(v) == [ok |-> TRUE, value |-> v]
Raised == [ok |-> FALSE, value |-> <<>>]

\* ------------------------------------------------------------- variables

VARIABLES
    \* --- one call of process_chunk / match_transcription_with_speakers
    cpc,              \* "call" before the call, "returned" after it
    chunk_data,       \* the chunk descriptor: [start_time]
    whisper_result,   \* what whisper_model.transcribe returns (or raises)
    diarizer_result,  \* what diarization_pipeline returns (or raises)
    speaker_names,    \* transcribe.py: mapping of speaker tag to real name
    speaker_segments, \* process_chunk's local list of labelled, shifted turns
    final_segments,   \* return value of process_chunk
    single_segments   \* return value of match_transcription_with_speakers

VARIABLES
    \* --- one run of AudioChunkProcessor.process_audio
    pc,               \* where process_audio stands
    audio_len,        \* len(audio), in milliseconds
    chunks,           \* list of chunk descriptors [path, start_time]
    temp_files,       \* the chunk files present in temp_dir: [path, from, to]
    k,                \* index in chunks of the chunk the loop is at
    all_segments,     \* the accumulated list
    out_file,         \* content of the file at output_path
    reader_data,      \* what a concurrent json.load of output_path got
    chunk_returns,    \* history: the value each process_chunk call returned
    chunk_raised,     \* history: whether a collaborator raised in that call
    chunk_transcribed,\* history: the segments transcribed in that call
    checkpoints,      \* history: the list each completed checkpoint write saved
    remove_errors     \* paths whose os.remove raised in the cleanup

pipeVars == <<pc, audio_len, chunks, temp_files, k, all_segments, out_file,
              reader_data, chunk_returns, chunk_raised, chunk_transcribed,
              checkpoints, remove_errors>>

VARIABLES
    \* --- transcriptFormatter.py: the watched directory and the two threads
    files,            \* path -> [mtime, valid]; mtime 0: no such file
    txt,              \* path -> [ver, complete]: the rendering next to it
    processed_files,  \* TranscriptFormatter.processed_files (WatchState)
    events,           \* filesystem events queued for the observer thread
    s_pc,             \* main thread: where process_directory stands
    s_todo,           \* json_files not yet visited in this pass
    s_path,           \* json_path of the loop
    s_mtime,          \* modified_time of the loop
    s_data,           \* what format_transcript read, in the sweep
    h_pc,             \* observer thread: where on_created/on_modified stands
    h_path,           \* event.src_path
    h_data,           \* what format_transcript read, in the handler
    clean_pass,       \* history: no file was written since this pass began
    reconciled        \* history: a whole pass ran since the last file write

watchVars == <<files, txt, processed_files, events, s_pc, s_todo, s_path, s_mtime,
               s_data, h_pc, h_path, h_data, clean_pass, reconciled>>

VARIABLES
    \* --- one run of AudioProcessor.process_audio (transcribe.py)
    a_pc,             \* where process_audio stands
    a_transcription,  \* transcription: the segments transcribe_audio returned
    a_turns,          \* speaker_segments: what get_speaker_segments returned
    a_names,          \* what the spaCy name extraction returns (or raises)
    a_speaker_names,  \* speaker_names returned by find_speaker_introductions
    a_final_segments, \* final_segments
    a_out_file        \* content of the file at output_path

singleVars == <<a_pc, a_transcription, a_turns, a_names, a_speaker_names,
                a_final_segments, a_out_file>>

VARIABLES
    \* --- one call of TranscriptFormatter.format_transcript, by content
    r_pc,             \* where format_transcript stands
    r_file,           \* the JSON document at json_path
    r_data,           \* data = json.load(f)
    r_i,              \* index in data of the segment the loop is at
    r_current_speaker,\* current_speaker
    formatted_lines,  \* formatted_lines
    r_txt             \* content of the file at txt_path

renderVars == <<r_pc, r_file, r_data, r_i, r_current_speaker, formatted_lines,
                r_txt>>

chunkVars == <<cpc, chunk_data, whisper_result, diarizer_result, speaker_names,
               speaker_segments, final_segments, single_segments>>

vars == <<chunkVars, pipeVars, watchVars, singleVars, renderVars>>

\* ------------------------------------------------------ parts not running

\* The JSON file of the watched directory that is followed.
Paths == {"a.json"}

\* No process_chunk call is in progress.
CallIdle ==
    /\ cpc = "idle"
    /\ chunk_data = [start_time |-> 0]
    /\ whisper_result = Raised
    /\ diarizer_result = Raised
    /\ speaker_names = EmptyMap
    /\ speaker_segments = <<>>
    /\ final_segments = <<>>
    /\ single_segments = <<>>

NoData == [ver |-> 0, ok |-> FALSE]
NoText == [ver |-> 0, complete |-> TRUE]

\* The formatter is not running.
WatchIdle ==
    /\ files = [p \in Paths |-> [mtime |-> 0, valid |-> TRUE]]
    /\ txt = [p \in Paths |-> NoText]
    /\ processed_files = EmptyMap
    /\ events = <<>>
    /\ s_pc = "off"
    /\ s_todo = {}
    /\ s_path = "a.json"
    /\ s_mtime = 0
    /\ s_data = NoData
    /\ h_pc = "off"
    /\ h_path = "a.json"
    /\ h_data = NoData
    /\ clean_pass = FALSE
    /\ reconciled = FALSE

\* transcribe.py's process_audio is not running.
SingleIdle ==
    /\ a_pc = "idle"
    /\ a_transcription = <<>>
    /\ a_turns = <<>>
    /\ a_names = Raised
    /\ a_speaker_names = EmptyMap
    /\ a_final_segments = <<>>
    /\ a_out_file = <<>>

\* No format_transcript call is followed by content.
RenderIdle ==
    /\ r_pc = "idle"
    /\ r_file = <<>>
    /\ r_data = <<>>
    /\ r_i = 1
    /\ r_current_speaker = None
    /\ formatted_lines = <<>>
    /\ r_txt = ""

\* ------------------------------------- async-transcribe.py: process_chunk

\* sorted(set(speaker for _, _, speaker in diarization.itertracks(...)))
RECURSIVE SortedTags(_, _)
SortedTags(S, i) ==
    IF i > Len(TagOrder) THEN <<>>
    ELSE (IF TagOrder[i] \in S THEN <<TagOrder[i]>> ELSE <<>>) \o SortedTags(S, i + 1)

unique_speakers(diarization) ==
    SortedTags({diarization[i].speaker : i \in 1..Len(diarization)}, 1)

\* {speaker: f"Speaker {i+1}" for i, speaker in enumerate(unique_speakers)}
speaker_mapping(diarization) ==
    LET us == unique_speakers(diarization)
    IN  [s \in {us[i] : i \in 1..Len(us)} |->
            "Speaker " \o ToString(CHOOSE i \in 1..Len(us) : us[i] = s)]

\* Turn times shifted by the chunk's start_time (mutant of ShiftTurn: not shifted).
ShiftTurnNoOffset(t, start_time) == t
ShiftTurn(t, start_time) == t + start_time

\* speaker_segments: labelled turns on the global time axis.
chunk_speaker_segments(diarization, start_time) ==
    LET m == speaker_mapping(diarization)
    IN  [i \in 1..Len(diarization) |->
            [speaker |-> m[diarization[i].speaker],
             start   |-> ShiftTurn(diarization[i].start, start_time),
             end     |-> ShiftTurn(diarization[i].end, start_time)]]

\* Mutant of Better: a later turn with equal overlap replaces the current one.
BetterOrEqual(overlap_duration, max_overlap) == overlap_duration >= max_overlap
\* if overlap_duration > max_overlap
Better(overlap_duration, max_overlap) == overlap_duration > max_overlap

\* One iteration of "for speaker_seg in speaker_segs".
MatchStep(acc, segment_start, segment_end, speaker_seg) ==
    LET overlap_start == Max(segment_start, speaker_seg.start)
        overlap_end   == Min(segment_end, speaker_seg.end)
    IN  IF overlap_end > overlap_start
           /\ Better(overlap_end - overlap_start, acc.max_overlap)
        THEN [current_speaker |-> speaker_seg.speaker,
              max_overlap     |-> overlap_end - overlap_start]
        ELSE acc

RECURSIVE MatchLoop(_, _, _, _)
MatchLoop(acc, segment_start, segment_end, speaker_segs) ==
    IF speaker_segs = <<>> THEN acc
    ELSE MatchLoop(MatchStep(acc, segment_start, segment_end, Head(speaker_segs)),
                   segment_start, segment_end, Tail(speaker_segs))

\* current_speaker after the loop, starting from None / 0.
FindSpeaker(segment_start, segment_end, speaker_segs) ==
    MatchLoop([current_speaker |-> None, max_overlap |-> 0],
              segment_start, segment_end, speaker_segs).current_speaker

\* current_speaker if current_speaker else "Unknown Speaker"
ChunkLabel(current_speaker) ==
    IF Truthy(current_speaker) THEN current_speaker ELSE "Unknown Speaker"

\* The body of the try block once both collaborators have returned.
chunk_final_segments(start_time, segments, diarization) ==
    LET speaker_segs == chunk_speaker_segments(diarization, start_time)
    IN  [i \in 1..Len(segments) |->
            LET segment_start == segments[i].start + start_time
                segment_end   == segments[i].end + start_time
            IN  [speaker |-> ChunkLabel(FindSpeaker(segment_start, segment_end,
                                                    speaker_segs)),
                 start   |-> segment_start,
                 end     |-> segment_end]]

\* process_chunk: the try block, and the except branch returning [].
process_chunk(chunk, transcribed, diarized) ==
    IF transcribed.ok /\ diarized.ok
    THEN chunk_final_segments(chunk.start_time, transcribed.value, diarized.value)
    ELSE <<>>

\* --------------------- transcribe.py: match_transcription_with_speakers

\* get_speaker_segments: the turns as the diarizer reports them.
get_speaker_segments(diarization) ==
    [i \in 1..Len(diarization) |->
        [speaker |-> diarization[i].speaker,
         start   |-> diarization[i].start,
         end     |-> diarization[i].end]]

\* Use real name if available, otherwise use speaker ID
SingleLabel(current_speaker, names) ==
    IF DOMAIN names # {} /\ current_speaker \in DOMAIN names
    THEN names[current_speaker]
    ELSE IF Truthy(current_speaker) THEN current_speaker ELSE "Unknown"

match_transcription_with_speakers(transcription, speaker_segs, names) ==
    [i \in 1..Len(transcription) |->
        [speaker |-> SingleLabel(FindSpeaker(transcription[i].start,
                                             transcription[i].end,
                                             speaker_segs), names),
         start   |-> transcription[i].start,
         end     |-> transcription[i].end]]

\* -------------------------------- async-transcribe.py: process_audio

\* chunk_length_ms = self.chunk_size_mins * 60 * 1000
chunk_length_ms == chunk_size_mins * 60 * 1000

\* The file at output_path: the segments written so far, and whether the
\* closing bracket of the JSON array is on disk.
Truncated == [text |-> <<>>, closed |-> FALSE]
Partial(segs) == [text |-> segs, closed |-> FALSE]
Complete(segs) == [text |-> segs, closed |-> TRUE]

\* json.load: the list, or JSONDecodeError on an empty or cut-off document.
Unread == [read |-> FALSE, ok |-> FALSE, value |-> <<>>]
json_load(file) ==
    IF file.closed THEN [read |-> TRUE, ok |-> TRUE, value |-> file.text]
    ELSE [read |-> TRUE, ok |-> FALSE, value |-> <<>>]

\* The timeline a previous run left at output_path ("transcript.json").
PreviousTimeline == <<[speaker |-> "Speaker 1", start |-> 0, end |-> 1]>>

PipeIdle ==
    /\ pc = "idle"
    /\ audio_len = 0
    /\ chunks = <<>>
    /\ temp_files = {}
    /\ k = 1
    /\ all_segments = <<>>
    /\ out_file = Complete(<<>>)
    /\ reader_data = Unread
    /\ chunk_returns = <<>>
    /\ chunk_raised = <<>>
    /\ chunk_transcribed = <<>>
    /\ checkpoints = <<>>
    /\ remove_errors = {}

\* range(0, len(audio), chunk_length_ms)
RECURSIVE RangeFrom(_, _, _)
RangeFrom(i, stop, step) ==
    IF i >= stop THEN <<>> ELSE <<i>> \o RangeFrom(i + step, stop, step)

\* split_audio: one descriptor per window; the path is named after i.
split_audio(len_audio) ==
    LET starts == RangeFrom(0, len_audio, chunk_length_ms)
    IN  [n \in 1..Len(starts) |->
            [path |-> starts[n], start_time |-> starts[n] \div 1000]]

\* Mutant of audio_slice: the slice is not cut at the end of the recording.
audio_slice_unclamped(i, len_audio) == [from |-> i, to |-> i + chunk_length_ms]
\* chunk = audio[i:i + chunk_length_ms]: a slice ends where the recording ends.
audio_slice(i, len_audio) ==
    [from |-> Min(i, len_audio), to |-> Min(i + chunk_length_ms, len_audio)]

\* chunk.export(chunk_path, format="wav"): the file of the window starting at i.
exported_file(i, len_audio) ==
    LET chunk == audio_slice(i, len_audio)
    IN  [path |-> i, from |-> chunk.from, to |-> chunk.to]

\* Recordings of up to MaxWindows windows: empty, of whole windows, and with a
\* last window of one millisecond.
AudioLens ==
    {0} \cup {w * chunk_length_ms : w \in 1..(MaxWindows - 1)}
        \cup {(w - 1) * chunk_length_ms + 1 : w \in 1..MaxWindows}

\* What the collaborators return within a pipeline run.
PipeSegments == {[start |-> 0, end |-> 1], [start |-> 1, end |-> 2]}
PipeTranscriptions ==
    {t \in SeqsUpTo(PipeSegments, MaxSegs) :
        \A i, j \in 1..Len(t) : i # j => t[i] # t[j]}
PipeDiarizations == {<<[speaker |-> "SPEAKER_00", start |-> 0, end |-> 1]>>}

InitPipe ==
    /\ pc = "start"
    /\ audio_len \in AudioLens
    /\ chunks = <<>>
    /\ temp_files = {}
    /\ k = 1
    /\ all_segments = <<>>
    /\ out_file = Complete(PreviousTimeline)
    /\ reader_data = Unread
    /\ chunk_returns = <<>>
    /\ chunk_raised = <<>>
    /\ chunk_transcribed = <<>>
    /\ checkpoints = <<>>
    /\ remove_errors = {}
    /\ CallIdle
    /\ WatchIdle
    /\ SingleIdle
    /\ RenderIdle

\* chunks, temp_dir = self.split_audio(audio_path); all_segments = []
Split ==
    /\ pc = "start"
    /\ chunks' = split_audio(audio_len)
    /\ temp_files' = {exported_file(chunks'[n].path, audio_len) : n \in 1..Len(chunks')}
    /\ all_segments' = <<>>
    /\ k' = 1
    /\ pc' = IF chunks' = <<>> THEN "cleanup" ELSE "loop"
    /\ UNCHANGED <<chunkVars, watchVars, singleVars, renderVars>>
    /\ UNCHANGED <<audio_len, out_file, reader_data, chunk_returns, chunk_raised,
                   chunk_transcribed, checkpoints, remove_errors>>

\* split_audio raises (AudioSegment.from_file, mkdtemp, or the export of a
\* window after n windows were exported): the call at line 122 stands before
\* the try block, so the exception leaves process_audio at once.
SplitRaises ==
    /\ pc = "start"
    /\ \E n \in 0..Max(Len(split_audio(audio_len)) - 1, 0) :
          temp_files' = {exported_file(split_audio(audio_len)[m].path, audio_len) :
                            m \in 1..n}
    /\ pc' = "raised"
    /\ UNCHANGED <<chunkVars, watchVars, singleVars, renderVars>>
    /\ UNCHANGED <<audio_len, chunks, k, all_segments, out_file, reader_data,
                   chunk_returns, chunk_raised, chunk_transcribed, checkpoints,
                   remove_errors>>

\* Mutant of AfterChunk: a chunk whose collaborator raised ends the loop.
AfterChunkStopOnError(raised) == IF raised THEN "cleanup" ELSE "ckpt_open"
\* After process_chunk returns, raised or not, the loop body goes on to the
\* checkpoint write.
AfterChunk(raised) == "ckpt_open"

\* segments = self.process_chunk(chunk); all_segments.extend(segments)
\* Mutant of extend: the returned segments replace the accumulated list.
extend_replacing(list, items) == items
\* all_segments.extend(segments)
extend(list, items) == list \o items

ProcessChunk ==
    /\ pc = "loop"
    /\ \E transcribed \in {Raised} \cup {Returned(v) : v \in PipeTranscriptions},
          diarized \in {Raised} \cup {Returned(v) : v \in PipeDiarizations} :
          \* diarization is not called once transcription has raised
          /\ ~transcribed.ok => ~diarized.ok
          /\ LET segments == process_chunk(chunks[k], transcribed, diarized)
                 raised == ~(transcribed.ok /\ diarized.ok)
             IN  /\ all_segments' = extend(all_segments, segments)
                 /\ chunk_returns' = Append(chunk_returns, segments)
                 /\ chunk_raised' = Append(chunk_raised, raised)
                 /\ chunk_transcribed' = Append(chunk_transcribed, transcribed.value)
                 /\ pc' = AfterChunk(raised)
    /\ UNCHANGED <<chunkVars, watchVars, singleVars, renderVars>>
    /\ UNCHANGED <<audio_len, chunks, temp_files, k, out_file, reader_data,
                   checkpoints, remove_errors>>

\* with open(output_path, 'w', ...) as f: the file is created or truncated.
OpenOutput ==
    /\ pc \in {"ckpt_open", "final_open"}
    /\ out_file' = Truncated
    /\ pc' = IF pc = "ckpt_open" THEN "ckpt_dump" ELSE "final_dump"
    /\ UNCHANGED <<chunkVars, watchVars, singleVars, renderVars>>
    /\ UNCHANGED <<audio_len, chunks, temp_files, k, all_segments, reader_data,
                   chunk_returns, chunk_raised, chunk_transcribed, checkpoints,
                   remove_errors>>

\* json.dump(all_segments, f, ...): the buffer is flushed to disk part way.
FlushOutput ==
    /\ pc \in {"ckpt_dump", "final_dump"}
    /\ \E n \in 1..Len(all_segments) :
          /\ n > Len(out_file.text)
          /\ out_file' = Partial(SubSeq(all_segments, 1, n))
    /\ UNCHANGED <<chunkVars, watchVars, singleVars, renderVars>>
    /\ UNCHANGED <<pc, audio_len, chunks, temp_files, k, all_segments, reader_data,
                   chunk_returns, chunk_raised, chunk_transcribed, checkpoints,
                   remove_errors>>

\* Leaving the with block: everything is written and the file closed; the
\* loop moves to the next chunk, or ends.
CloseOutput ==
    /\ pc \in {"ckpt_dump", "final_dump"}
    /\ out_file' = Complete(all_segments)
    /\ IF pc = "final_dump"
       THEN pc' = "done" /\ k' = k /\ checkpoints' = checkpoints
       ELSE /\ k' = k + 1
            /\ checkpoints' = Append(checkpoints, all_segments)
            /\ pc' = IF k < Len(chunks) THEN "loop" ELSE "cleanup"
    /\ UNCHANGED <<chunkVars, watchVars, singleVars, renderVars>>
    /\ UNCHANGED <<audio_len, chunks, temp_files, all_segments, reader_data,
                   chunk_returns, chunk_raised, chunk_transcribed, remove_errors>>

\* open or json.dump raises (disk full, no permission).  In the loop the
\* finally block runs and the exception goes on to the caller; in the final
\* write it goes to the caller directly.
WriteRaises ==
    /\ pc \in {"ckpt_open", "ckpt_dump", "final_open", "final_dump"}
    /\ pc' = IF pc \in {"ckpt_open", "ckpt_dump"} THEN "cleanup_raise" ELSE "raised"
    /\ UNCHANGED <<chunkVars, watchVars, singleVars, renderVars>>
    /\ UNCHANGED <<audio_len, chunks, temp_files, k, all_segments, out_file,
                   reader_data, chunk_returns, chunk_raised, chunk_transcribed,
                   checkpoints, remove_errors>>

\* finally: for chunk in chunks: try: os.remove(chunk["path"]) except: pass;
\* then os.rmdir(temp_dir), likewise.  The removals of the paths in failing
\* raise and are swallowed; every other chunk file is removed.
Cleanup ==
    /\ pc \in {"cleanup", "cleanup_raise"}
    /\ \E failing \in SUBSET {chunks[n].path : n \in 1..Len(chunks)} :
          /\ temp_files' = {f \in temp_files : f.path \in failing}
          /\ remove_errors' = failing
    /\ pc' = IF pc = "cleanup" THEN "sort" ELSE "raised"
    /\ UNCHANGED <<chunkVars, watchVars, singleVars, renderVars>>
    /\ UNCHANGED <<audio_len, chunks, k, all_segments, out_file, reader_data,
                   chunk_returns, chunk_raised, chunk_transcribed, checkpoints>>

\* list.sort(key=lambda x: x["start"]): stable, ascending by start.
RECURSIVE InsertByStart(_, _)
InsertByStart(x, sorted) ==
    IF sorted = <<>> THEN <<x>>
    ELSE IF sorted[Len(sorted)].start <= x.start THEN Append(sorted, x)
    ELSE Append(InsertByStart(x, SubSeq(sorted, 1, Len(sorted) - 1)),
                sorted[Len(sorted)])

RECURSIVE SortedByStart(_)
SortedByStart(segs) ==
    IF segs = <<>> THEN <<>>
    ELSE InsertByStart(segs[Len(segs)], SortedByStart(SubSeq(segs, 1, Len(segs) - 1)))

\* Mutant of sort_segments: the list is written in the order accumulated.
sort_segments_skipped(segs) == segs
sort_segments(segs) == SortedByStart(segs)

\* all_segments.sort(key=lambda x: x["start"])
SortSegments ==
    /\ pc = "sort"
    /\ all_segments' = sort_segments(all_segments)
    /\ pc' = "final_open"
    /\ UNCHANGED <<chunkVars, watchVars, singleVars, renderVars>>
    /\ UNCHANGED <<audio_len, chunks, temp_files, k, out_file, reader_data,
                   chunk_returns, chunk_raised, chunk_transcribed, checkpoints,
                   remove_errors>>

\* The process is killed (power loss, kill -9) at any point of the run.
Crash ==
    /\ pc \notin {"idle", "done", "raised", "crashed"}
    /\ pc' = "crashed"
    /\ UNCHANGED <<chunkVars, watchVars, singleVars, renderVars>>
    /\ UNCHANGED <<audio_len, chunks, temp_files, k, all_segments, out_file,
                   reader_data, chunk_returns, chunk_raised, chunk_transcribed,
                   checkpoints, remove_errors>>

\* transcriptFormatter.py format_transcript, in another process:
\*   with open(json_path, 'r', ...) as f: data = json.load(f)
ReaderRead ==
    /\ pc \notin {"idle", "crashed"}
    /\ reader_data = Unread
    /\ reader_data' = json_load(out_file)
    /\ UNCHANGED <<chunkVars, watchVars, singleVars, renderVars>>
    /\ UNCHANGED <<pc, audio_len, chunks, temp_files, k, all_segments, out_file,
                   chunk_returns, chunk_raised, chunk_transcribed, checkpoints,
                   remove_errors>>

NextPipe ==
    \/ Split \/ SplitRaises \/ ProcessChunk \/ OpenOutput \/ FlushOutput
    \/ CloseOutput \/ WriteRaises \/ Cleanup \/ SortSegments \/ Crash
    \/ ReaderRead

SpecPipe == InitPipe /\ [][NextPipe]_vars

\* ------------------------------------------------ transcriptFormatter.py

\* formatter = TranscriptFormatter(watch_directory): processed_files = {}.
\* Each file of the directory is absent, or was written once, well or badly.
InitWatch ==
    /\ files \in [Paths -> {[mtime |-> 0, valid |-> TRUE],
                            [mtime |-> 1, valid |-> TRUE],
                            [mtime |-> 1, valid |-> FALSE]}]
    /\ txt = [p \in Paths |-> NoText]
    /\ processed_files = EmptyMap
    /\ events = <<>>
    /\ s_pc = "sleep"
    /\ s_todo = {}
    /\ s_path = "a.json"
    /\ s_mtime = 0
    /\ s_data = NoData
    /\ h_pc = "idle"
    /\ h_path = "a.json"
    /\ h_data = NoData
    /\ clean_pass = FALSE
    /\ reconciled = FALSE
    /\ CallIdle
    /\ PipeIdle
    /\ SingleIdle
    /\ RenderIdle

\* self.processed_files.get(json_path, 0)
dict_get(d, key, default) == IF key \in DOMAIN d THEN d[key] ELSE default
\* self.processed_files[json_path] = value
dict_set(d, key, value) ==
    [q \in DOMAIN d \cup {key} |-> IF q = key THEN value ELSE d[q]]

\* A writer (the pipeline, an editor) writes the JSON file p: a new
\* modification time, and content json.load accepts or not (malformed, or
\* caught while being written).  The observer queues an event, or misses it.
WriteFile(p) ==
    /\ files[p].mtime < MaxMtime
    /\ \E v \in BOOLEAN :
          files' = [files EXCEPT ![p] = [mtime |-> files[p].mtime + 1, valid |-> v]]
    /\ \/ Len(events) < MaxPending /\ events' = Append(events, p)
       \/ events' = events
    /\ clean_pass' = FALSE
    /\ reconciled' = FALSE
    /\ UNCHANGED <<txt, processed_files, s_pc, s_todo, s_path, s_mtime, s_data,
                   h_pc, h_path, h_data>>
    /\ UNCHANGED <<chunkVars, pipeVars, singleVars, renderVars>>

\* with open(json_path, 'r', ...) as f: data = json.load(f)
read_json(p) == [ver |-> files[p].mtime, ok |-> files[p].valid]
\* with open(txt_path, 'w', ...) as f: the text file is created or truncated
open_txt(p) == [txt EXCEPT ![p] = [ver |-> 0, complete |-> FALSE]]
\* f.write('\n'.join(formatted_lines)), and the file is closed
write_txt(p, data) == [txt EXCEPT ![p] = [ver |-> data.ver, complete |-> TRUE]]

\* Mutant of NeedsProcessing: a file is processed again at an equal time.
NeedsProcessingOrEqual(modified_time, last_processed) ==
    modified_time >= last_processed
\* if modified_time > last_processed
NeedsProcessing(modified_time, last_processed) == modified_time > last_processed

\* process_directory: json_files = glob.glob(os.path.join(directory, "*.json"))
SweepStart ==
    /\ s_pc = "sleep"
    /\ s_todo' = {p \in Paths : files[p].mtime > 0}
    /\ s_pc' = "next"
    /\ clean_pass' = TRUE
    /\ UNCHANGED <<files, txt, processed_files, events, s_path, s_mtime, s_data,
                   h_pc, h_path, h_data, reconciled>>
    /\ UNCHANGED <<chunkVars, pipeVars, singleVars, renderVars>>

\* for json_path in json_files: modified_time = os.path.getmtime(json_path)
SweepStat(p) ==
    /\ s_pc = "next"
    /\ p \in s_todo
    /\ s_todo' = s_todo \ {p}
    /\ s_path' = p
    /\ s_mtime' = files[p].mtime
    /\ s_pc' = "check"
    /\ UNCHANGED <<files, txt, processed_files, events, s_data,
                   h_pc, h_path, h_data, clean_pass, reconciled>>
    /\ UNCHANGED <<chunkVars, pipeVars, singleVars, renderVars>>

\* last_processed = self.processed_files.get(json_path, 0)
\* if modified_time > last_processed: ... self.format_transcript(json_path)
SweepCheck ==
    /\ s_pc = "check"
    /\ IF NeedsProcessing(s_mtime, dict_get(processed_files, s_path, 0))
       THEN s_pc' = "read" /\ s_mtime' = s_mtime
       ELSE s_pc' = "next" /\ s_mtime' = 0
    /\ UNCHANGED <<files, txt, processed_files, events, s_todo, s_path,
                   s_data, h_pc, h_path, h_data, clean_pass, reconciled>>
    /\ UNCHANGED <<chunkVars, pipeVars, singleVars, renderVars>>

\* format_transcript: the JSON is read; an exception is caught and printed,
\* and format_transcript returns normally.
SweepRead ==
    /\ s_pc = "read"
    /\ s_data' = read_json(s_path)
    /\ s_pc' = IF s_data'.ok THEN "open_txt" ELSE "record"
    /\ UNCHANGED <<files, txt, processed_files, events, s_todo, s_path, s_mtime,
                   h_pc, h_path, h_data, clean_pass, reconciled>>
    /\ UNCHANGED <<chunkVars, pipeVars, singleVars, renderVars>>

SweepOpenTxt ==
    /\ s_pc = "open_txt"
    /\ txt' = open_txt(s_path)
    /\ s_pc' = "write_txt"
    /\ UNCHANGED <<files, processed_files, events, s_todo, s_path, s_mtime,
                   s_data, h_pc, h_path, h_data, clean_pass, reconciled>>
    /\ UNCHANGED <<chunkVars, pipeVars, singleVars, renderVars>>

SweepWriteTxt ==
    /\ s_pc = "write_txt"
    /\ txt' = write_txt(s_path, s_data)
    /\ s_pc' = "record"
    /\ UNCHANGED <<files, processed_files, events, s_todo, s_path, s_mtime,
                   s_data, h_pc, h_path, h_data, clean_pass, reconciled>>
    /\ UNCHANGED <<chunkVars, pipeVars, singleVars, renderVars>>

\* self.processed_files[json_path] = modified_time; the iteration is over and
\* its locals are dead.
SweepRecord ==
    /\ s_pc = "record"
    /\ processed_files' = dict_set(processed_files, s_path, s_mtime)
    /\ s_pc' = "next"
    /\ s_mtime' = 0
    /\ s_data' = NoData
    /\ UNCHANGED <<files, txt, events, s_todo, s_path,
                   h_pc, h_path, h_data, clean_pass, reconciled>>
    /\ UNCHANGED <<chunkVars, pipeVars, singleVars, renderVars>>

\* The for loop is over; main sleeps 5 seconds before the next pass.
SweepEnd ==
    /\ s_pc = "next"
    /\ s_todo = {}
    /\ s_pc' = "sleep"
    /\ reconciled' = clean_pass
    /\ UNCHANGED <<files, txt, processed_files, events, s_todo, s_path, s_mtime,
                   s_data, h_pc, h_path, h_data, clean_pass>>
    /\ UNCHANGED <<chunkVars, pipeVars, singleVars, renderVars>>

\* on_created / on_modified: the observer thread takes the next event of a
\* .json file, sleeps half a second and calls format_transcript.
HandlerTake ==
    /\ h_pc = "idle"
    /\ s_pc # "stopped"
    /\ events # <<>>
    /\ h_path' = Head(events)
    /\ events' = Tail(events)
    /\ h_pc' = "read"
    /\ UNCHANGED <<files, txt, processed_files, s_pc, s_todo, s_path, s_mtime,
                   s_data, h_data, clean_pass, reconciled>>
    /\ UNCHANGED <<chunkVars, pipeVars, singleVars, renderVars>>

HandlerRead ==
    /\ h_pc = "read"
    /\ h_data' = read_json(h_path)
    /\ h_pc' = IF h_data'.ok THEN "open_txt" ELSE "record"
    /\ UNCHANGED <<files, txt, processed_files, events, s_pc, s_todo, s_path,
                   s_mtime, s_data, h_path, clean_pass, reconciled>>
    /\ UNCHANGED <<chunkVars, pipeVars, singleVars, renderVars>>

HandlerOpenTxt ==
    /\ h_pc = "open_txt"
    /\ txt' = open_txt(h_path)
    /\ h_pc' = "write_txt"
    /\ UNCHANGED <<files, processed_files, events, s_pc, s_todo, s_path,
                   s_mtime, s_data, h_path, h_data, clean_pass, reconciled>>
    /\ UNCHANGED <<chunkVars, pipeVars, singleVars, renderVars>>

HandlerWriteTxt ==
    /\ h_pc = "write_txt"
    /\ txt' = write_txt(h_path, h_data)
    /\ h_pc' = "record"
    /\ UNCHANGED <<files, processed_files, events, s_pc, s_todo, s_path,
                   s_mtime, s_data, h_path, h_data, clean_pass, reconciled>>
    /\ UNCHANGED <<chunkVars, pipeVars, singleVars, renderVars>>

\* self.formatter.processed_files[event.src_path] = os.path.getmtime(event.src_path)
HandlerRecord ==
    /\ h_pc = "record"
    /\ processed_files' = dict_set(processed_files, h_path, files[h_path].mtime)
    /\ h_pc' = "idle"
    /\ h_data' = NoData
    /\ UNCHANGED <<files, txt, events, s_pc, s_todo, s_path,
                   s_mtime, s_data, h_path, clean_pass, reconciled>>
    /\ UNCHANGED <<chunkVars, pipeVars, singleVars, renderVars>>

\* KeyboardInterrupt is raised in the main thread, wherever it stands in the
\* try block of main: neither "except Exception" of format_transcript and
\* process_directory catches it, a with block it leaves closes its file, and
\* main goes to observer.stop() and observer.join().
Interrupt ==
    /\ s_pc # "stopped"
    /\ s_pc' = "stopped"
    /\ s_todo' = {}
    /\ s_mtime' = 0
    /\ s_data' = NoData
    /\ UNCHANGED <<files, txt, processed_files, events, s_path,
                   h_pc, h_path, h_data, clean_pass, reconciled>>
    /\ UNCHANGED <<chunkVars, pipeVars, singleVars, renderVars>>

\* observer.stop(); observer.join(): the observer thread finishes the handler
\* it is in, dispatches no further event and ends; the process exits.
HandlerStop ==
    /\ s_pc = "stopped"
    /\ h_pc = "idle"
    /\ h_pc' = "stopped"
    /\ UNCHANGED <<files, txt, processed_files, events, s_pc, s_todo, s_path,
                   s_mtime, s_data, h_path, h_data, clean_pass, reconciled>>
    /\ UNCHANGED <<chunkVars, pipeVars, singleVars, renderVars>>

NextWatch ==
    \/ \E p \in Paths : WriteFile(p)
    \/ SweepStart
    \/ \E p \in Paths : SweepStat(p)
    \/ SweepCheck \/ SweepRead \/ SweepOpenTxt \/ SweepWriteTxt \/ SweepRecord
    \/ SweepEnd
    \/ HandlerTake \/ HandlerRead \/ HandlerOpenTxt \/ HandlerWriteTxt
    \/ HandlerRecord
    \/ Interrupt \/ HandlerStop

SpecWatch == InitWatch /\ [][NextWatch]_vars

\* The main thread, while not interrupted, and the observer thread each keep
\* running: a step either can take is eventually taken.  File writes and the
\* stop signal come from outside and are under no such obligation.
SweepStep ==
    \/ SweepStart
    \/ \E p \in Paths : SweepStat(p)
    \/ SweepCheck \/ SweepRead \/ SweepOpenTxt \/ SweepWriteTxt \/ SweepRecord
    \/ SweepEnd
HandlerStep ==
    \/ HandlerTake \/ HandlerRead \/ HandlerOpenTxt \/ HandlerWriteTxt
    \/ HandlerRecord \/ HandlerStop

SpecWatchFair == SpecWatch /\ WF_vars(SweepStep) /\ WF_vars(HandlerStep)

\* ------------------------------------------------ one call, drawn inputs

\* chunk["start_time"] = i / 1000 for i a multiple of chunk_length_ms.
StartTimes == {(w * chunk_length_ms) \div 1000 : w \in 0..MaxChunkIndex}

\* One call is given no segment or one segment, and up to MaxTurns turns.
CallTranscriptions == {<<>>} \cup {<<iv>> : iv \in Intervals}
CallDiarizations == SeqsUpTo(ValidTurns, MaxTurns)

NameMaps == {EmptyMap,
             [t \in {"SPEAKER_00"} |-> "Alice"],
             [t \in Tags |-> IF t = "SPEAKER_00" THEN "Alice" ELSE "Bob"]}

InitCall ==
    /\ cpc = "call"
    /\ chunk_data \in [start_time : StartTimes]
    /\ whisper_result \in {Raised} \cup {Returned(v) : v \in CallTranscriptions}
    /\ diarizer_result \in {Raised} \cup {Returned(v) : v \in CallDiarizations}
    /\ speaker_names \in NameMaps
    /\ speaker_segments = <<>>
    /\ final_segments = <<>>
    /\ single_segments = <<>>
    /\ PipeIdle
    /\ WatchIdle
    /\ SingleIdle
    /\ RenderIdle

\* segments = self.process_chunk(chunk)
CallProcessChunk ==
    /\ cpc = "call"
    /\ speaker_segments' =
           IF whisper_result.ok /\ diarizer_result.ok
           THEN chunk_speaker_segments(diarizer_result.value, chunk_data.start_time)
           ELSE <<>>
    /\ final_segments' = process_chunk(chunk_data, whisper_result, diarizer_result)
    /\ cpc' = "chunk_returned"
    /\ UNCHANGED <<pipeVars, watchVars, singleVars, renderVars>>
    /\ UNCHANGED <<chunk_data, whisper_result, diarizer_result, speaker_names,
                   single_segments>>

\* transcribe.py process_audio: the same collaborator outputs, matched in one pass.
CallMatchSingle ==
    /\ cpc = "chunk_returned"
    /\ whisper_result.ok /\ diarizer_result.ok
    /\ single_segments' = match_transcription_with_speakers(
                              whisper_result.value,
                              get_speaker_segments(diarizer_result.value),
                              speaker_names)
    /\ cpc' = "matched"
    /\ UNCHANGED <<pipeVars, watchVars, singleVars, renderVars>>
    /\ UNCHANGED <<chunk_data, whisper_result, diarizer_result, speaker_names,
                   speaker_segments, final_segments>>

NextCall == CallProcessChunk \/ CallMatchSingle

SpecCall == InitCall /\ [][NextCall]_vars

\* ------------------------------------------ transcribe.py: process_audio

\* The orders in which iterating a Python set of strings can yield its
\* elements: string hashes are randomized per process, so any order.
SetIterationOrders(S) ==
    {f \in [1..Cardinality(S) -> S] : \A i, j \in 1..Cardinality(S) : i # j => f[i] # f[j]}

\* intro_speakers = [s for s in speaker_segments if s["start"] <= intro_duration]
intro_speakers(speaker_segs) ==
    SelectSeq(speaker_segs, LAMBDA sp : sp.start <= intro_duration)

\* for i, speaker in enumerate(<order>): if i < len(names):
\*     speaker_names[speaker] = names[i]
PairWithNames(order, names) ==
    [sp \in {order[i] : i \in 1..Min(Len(order), Len(names))} |->
        names[CHOOSE i \in 1..Len(order) : order[i] = sp]]

\* The values find_speaker_introductions can return: one per iteration order
\* of set(s["speaker"] for s in intro_speakers).
find_speaker_introductions(speaker_segs, names) ==
    LET intro == intro_speakers(speaker_segs)
    IN  {PairWithNames(order, names) :
            order \in SetIterationOrders({intro[i].speaker : i \in 1..Len(intro)})}

\* What the collaborators return within a single-pass run: turns that start
\* before, at and after the end of the introduction period.
SingleTurns == {[speaker |-> sp, start |-> st, end |-> st + 1] :
                   sp \in Tags, st \in {0, intro_duration, intro_duration + 1}}
SingleTranscriptions ==
    {<<>>,
     <<[start |-> 0, end |-> 1]>>,
     <<[start |-> 0, end |-> 1], [start |-> intro_duration, end |-> intro_duration + 2]>>}
PersonNames == {"Alice", "Bob"}

\* transcription and speaker_segments are in hand (lines 126-127); the name
\* extraction will return a list of names, or raise.
InitSingle ==
    /\ a_pc = "find_intro"
    /\ a_transcription \in SingleTranscriptions
    /\ a_turns \in SeqsUpTo(SingleTurns, MaxIntroTurns)
    /\ a_names \in {Raised} \cup {Returned(n) : n \in SeqsUpTo(PersonNames, MaxNames)}
    /\ a_speaker_names = EmptyMap
    /\ a_final_segments = <<>>
    /\ a_out_file = <<>>
    /\ CallIdle
    /\ PipeIdle
    /\ WatchIdle
    /\ RenderIdle

\* speaker_names = self.find_speaker_introductions(transcription, speaker_segments)
FindSpeakerIntroductions ==
    /\ a_pc = "find_intro"
    /\ a_names.ok
    /\ a_speaker_names' \in find_speaker_introductions(get_speaker_segments(a_turns),
                                                       a_names.value)
    /\ a_pc' = "match"
    /\ UNCHANGED <<a_transcription, a_turns, a_names, a_final_segments, a_out_file>>
    /\ UNCHANGED <<chunkVars, pipeVars, watchVars, renderVars>>

\* self.nlp(...) raises inside find_speaker_introductions: nothing between it
\* and the caller of process_audio catches the exception.
NameExtractionRaises ==
    /\ a_pc = "find_intro"
    /\ ~a_names.ok
    /\ a_pc' = "raised"
    /\ UNCHANGED <<a_transcription, a_turns, a_names, a_speaker_names,
                   a_final_segments, a_out_file>>
    /\ UNCHANGED <<chunkVars, pipeVars, watchVars, renderVars>>

\* final_segments = self.match_transcription_with_speakers(...)
MatchSpeakers ==
    /\ a_pc = "match"
    /\ a_final_segments' = match_transcription_with_speakers(
                               a_transcription, get_speaker_segments(a_turns),
                               a_speaker_names)
    /\ a_pc' = "save"
    /\ UNCHANGED <<a_transcription, a_turns, a_names, a_speaker_names, a_out_file>>
    /\ UNCHANGED <<chunkVars, pipeVars, watchVars, renderVars>>

\* with open(output_path, 'w', ...) as f: json.dump(final_segments, f, ...)
SaveResults ==
    /\ a_pc = "save"
    /\ a_out_file' = a_final_segments
    /\ a_pc' = "done"
    /\ UNCHANGED <<a_transcription, a_turns, a_names, a_speaker_names,
                   a_final_segments>>
    /\ UNCHANGED <<chunkVars, pipeVars, watchVars, renderVars>>

NextSingle ==
    FindSpeakerIntroductions \/ NameExtractionRaises \/ MatchSpeakers \/ SaveResults

SpecSingle == InitSingle /\ [][NextSingle]_vars

\* -------------------------- transcriptFormatter.py: format_transcript

\* A JSON value as json.dump writes it: a string literal, or null for None.
json_dump_value(v) ==
    IF v = None THEN [type |-> "null", chars |-> ""]
    ELSE [type |-> "string", chars |-> v]
\* json.load of such a value.
json_load_value(j) == IF j.type = "null" THEN None ELSE j.chars

\* json.dump(final_segments, f, ...): one object per segment; format_transcript
\* uses its speaker, timestamp and text members.
json_dump(segs) ==
    [i \in 1..Len(segs) |->
        [speaker   |-> json_dump_value(segs[i].speaker),
         timestamp |-> json_dump_value(segs[i].timestamp),
         text      |-> json_dump_value(segs[i].text)]]
\* data = json.load(f)
json_load_document(doc) ==
    [i \in 1..Len(doc) |->
        [speaker   |-> json_load_value(doc[i].speaker),
         timestamp |-> json_load_value(doc[i].timestamp),
         text      |-> json_load_value(doc[i].text)]]

\* The resolved segments the pipelines write: the speaker is a label or a
\* name, the text is stripped (and may be empty).
RenderSpeakers == {"Speaker 1", "Speaker 2", "Unknown Speaker"}
RenderTimestamps == {"0:00:00 --> 0:00:01", "0:10:00 --> 0:10:02"}
RenderTexts == {"", "Hello."}
WrittenSegments ==
    [speaker : RenderSpeakers, timestamp : RenderTimestamps, text : RenderTexts]

\* formatted_lines after the three header lines are appended.
HeaderLines ==
    <<"Transcript: a.json",
      "Generated at: 2024-01-01 00:00:00",
      "================================================================================\n">>

\* Mutant of SpeakerChanged: a speaker line is added for every segment.
SpeakerChangedAlways(speaker, current) == TRUE
\* if segment["speaker"] != current_speaker
SpeakerChanged(speaker, current) == speaker # current

\* '\n'.join(formatted_lines)
RECURSIVE join(_)
join(lines) ==
    IF lines = <<>> THEN ""
    ELSE IF Len(lines) = 1 THEN lines[1]
    ELSE lines[1] \o "\n" \o join(Tail(lines))

\* format_transcript is called for a JSON file a pipeline wrote.
InitRender ==
    /\ r_pc = "read"
    /\ r_file \in {json_dump(t) : t \in SeqsUpTo(WrittenSegments, MaxRenderSegs)}
    /\ r_data = <<>>
    /\ r_i = 1
    /\ r_current_speaker = None
    /\ formatted_lines = <<>>
    /\ r_txt = ""
    /\ CallIdle
    /\ PipeIdle
    /\ WatchIdle
    /\ SingleIdle

\* data = json.load(f); formatted_lines = []; current_speaker = None; the
\* header lines are appended.
RenderRead ==
    /\ r_pc = "read"
    /\ r_data' = json_load_document(r_file)
    /\ formatted_lines' = HeaderLines
    /\ r_current_speaker' = None
    /\ r_i' = 1
    /\ r_pc' = "loop"
    /\ UNCHANGED <<r_file, r_txt>>
    /\ UNCHANGED <<chunkVars, pipeVars, watchVars, singleVars>>

\* One iteration of "for segment in data".
RenderSegment ==
    /\ r_pc = "loop"
    /\ r_i <= Len(r_data)
    /\ LET segment == r_data[r_i]
       IN  IF SpeakerChanged(segment.speaker, r_current_speaker)
           THEN /\ formatted_lines' = formatted_lines \o
                       <<"\n[" \o segment.speaker \o "]",
                         segment.timestamp, segment.text \o "\n">>
                /\ r_current_speaker' = segment.speaker
           ELSE /\ formatted_lines' = formatted_lines \o
                       <<segment.timestamp, segment.text \o "\n">>
                /\ r_current_speaker' = r_current_speaker
    /\ r_i' = r_i + 1
    /\ UNCHANGED <<r_pc, r_file, r_data, r_txt>>
    /\ UNCHANGED <<chunkVars, pipeVars, watchVars, singleVars>>

\* with open(txt_path, 'w', ...) as f: f.write('\n'.join(formatted_lines))
RenderWrite ==
    /\ r_pc = "loop"
    /\ r_i > Len(r_data)
    /\ r_txt' = join(formatted_lines)
    /\ r_pc' = "done"
    /\ UNCHANGED <<r_file, r_data, r_i, r_current_speaker, formatted_lines>>
    /\ UNCHANGED <<chunkVars, pipeVars, watchVars, singleVars>>

NextRender == RenderRead \/ RenderSegment \/ RenderWrite

SpecRender == InitRender /\ [][NextRender]_vars

\* ----------------------------------------------- claims on one call

\* Overlap of a segment and a turn given on the same time axis.
Overlap(S, turn) == Min(S.end, turn.end) - Max(S.start, turn.start)
\* The turns with positive overlap that no other turn exceeds.
BestTurns(S, T) ==
    {i \in 1..Len(T) : /\ Overlap(S, T[i]) > 0
                        /\ \A j \in 1..Len(T) : Overlap(S, T[i]) >= Overlap(S, T[j])}
FirstBest(S, T) == CHOOSE i \in BestTurns(S, T) : \A j \in BestTurns(S, T) : i <= j
NameOrTag(tag) == IF tag \in DOMAIN speaker_names THEN speaker_names[tag] ELSE tag
BothReturned == whisper_result.ok /\ diarizer_result.ok

\* C1: whenever some turn overlaps the segment, both matching loops return the
\* label of the turn of maximal overlap, the first such turn in the order given.
C1_MaxOverlapFirstWins ==
    BothReturned =>
        \A i \in 1..Len(whisper_result.value) :
            LET S == whisper_result.value[i]
                T == diarizer_result.value
            IN  BestTurns(S, T) # {} =>
                  /\ cpc # "call" =>
                        final_segments[i].speaker =
                            speaker_mapping(T)[T[FirstBest(S, T)].speaker]
                  /\ cpc = "matched" =>
                        single_segments[i].speaker = NameOrTag(T[FirstBest(S, T)].speaker)

\* C1 witness: two turns of different speakers tie on a positive overlap.
C1_Witness ==
    /\ cpc = "matched"
    /\ Len(whisper_result.value) = 1 /\ Len(diarizer_result.value) = 2
    /\ BestTurns(whisper_result.value[1], diarizer_result.value) = {1, 2}
    /\ diarizer_result.value[1].speaker = "SPEAKER_01"
    /\ diarizer_result.value[2].speaker = "SPEAKER_00"
    /\ final_segments[1].speaker = "Speaker 2"
    /\ single_segments[1].speaker = "SPEAKER_01"

\* C2 (as claimed): when no turn overlaps the segment (touching turns and the
\* empty turn list included) the resolved speaker is "Unknown Speaker", in the
\* chunked pipeline and in the single-pass pipeline.
C2_UnknownSpeaker ==
    BothReturned =>
        \A i \in 1..Len(whisper_result.value) :
            LET S == whisper_result.value[i]
                T == diarizer_result.value
            IN  (\A j \in 1..Len(T) : T[j].end <= S.start \/ T[j].start >= S.end) =>
                  /\ cpc # "call" => final_segments[i].speaker = "Unknown Speaker"
                  /\ cpc = "matched" => single_segments[i].speaker = "Unknown Speaker"

\* C5: process_chunk shifts every segment and every turn of the window by the
\* chunk's start_time, so the speaker it resolves is the one the window-relative
\* segment and turns give.
C5_GlobalTimeAxis ==
    (cpc # "call" /\ BothReturned) =>
        LET o == chunk_data.start_time
            T == diarizer_result.value
        IN  /\ Len(final_segments) = Len(whisper_result.value)
            /\ Len(speaker_segments) = Len(T)
            /\ \A j \in 1..Len(T) :
                  /\ speaker_segments[j].start = T[j].start + o
                  /\ speaker_segments[j].end = T[j].end + o
            /\ \A i \in 1..Len(final_segments) :
                  LET S == whisper_result.value[i]
                  IN  /\ final_segments[i].start = S.start + o
                      /\ final_segments[i].end = S.end + o
                      /\ final_segments[i].speaker =
                            IF BestTurns(S, T) = {} THEN "Unknown Speaker"
                            ELSE speaker_mapping(T)[T[FirstBest(S, T)].speaker]

\* C5 witness: a segment of the second window, matched to a turn of that window.
C5_Witness ==
    /\ cpc # "call" /\ BothReturned
    /\ chunk_data.start_time = 600
    /\ whisper_result.value = <<[start |-> 1, end |-> 2]>>
    /\ final_segments = <<[speaker |-> "Speaker 1", start |-> 601, end |-> 602]>>

\* ----------------------------------------------- claims on a pipeline run

RECURSIVE Flatten(_)
Flatten(lists) ==
    IF lists = <<>> THEN <<>>
    ELSE Flatten(SubSeq(lists, 1, Len(lists) - 1)) \o lists[Len(lists)]

LoopPhase == {"loop", "ckpt_open", "ckpt_dump"}
AfterLoop == {"cleanup", "sort", "final_open", "final_dump", "done"}

\* C3: a window whose collaborator raises contributes no segment, leaves the
\* segments accumulated before it as they were, and does not stop the loop:
\* once the loop is over, process_chunk has been called for every window.
C3_FailedWindowSkipped ==
    /\ \A n \in 1..Len(chunk_returns) : chunk_raised[n] => chunk_returns[n] = <<>>
    /\ pc \in LoopPhase \cup {"cleanup", "sort"} =>
          all_segments = Flatten(chunk_returns)
    /\ pc \in LoopPhase => Len(chunk_returns) \in {k - 1, k}
    /\ pc \in AfterLoop => Len(chunk_returns) = Len(chunks)

\* C3 witness: the first of two windows failed, the second was processed and
\* gave segments, and the run completed.
C3_Witness ==
    /\ pc = "done"
    /\ Len(chunks) = 2
    /\ chunk_raised = <<TRUE, FALSE>>
    /\ Len(chunk_returns[2]) = 2
    /\ out_file = Complete(all_segments)

IsSortedByStart(segs) ==
    \A i \in 1..(Len(segs) - 1) : segs[i].start <= segs[i + 1].start

\* C4: when process_audio has returned, the timeline at output_path is complete
\* and sorted non-decreasing by start.
C4_FinalTimelineSorted ==
    pc = "done" => out_file.closed /\ IsSortedByStart(out_file.text)

\* C4 witness: a run with a failed window whose accumulated list was out of
\* order before the sort.
C4_Witness ==
    /\ pc = "done"
    /\ \E n \in 1..Len(chunk_raised) : chunk_raised[n]
    /\ ~IsSortedByStart(Flatten(chunk_returns))
    /\ Len(out_file.text) = Len(Flatten(chunk_returns))

\* The segments process_chunk returned for the first n windows.
OutputOfWindows(n) == Flatten(SubSeq(chunk_returns, 1, n))
Holds(file, segs) ==
    file.closed /\ \A i \in 1..Len(segs) : \E j \in 1..Len(file.text) : file.text[j] = segs[i]

\* C6 (as claimed): if the process crashes at any point after N windows have
\* been processed and checkpointed, the file at the checkpoint path holds the
\* output of those N windows.
C6_CrashKeepsCheckpoints ==
    (pc = "crashed" /\ k > 1) => Holds(out_file, OutputOfWindows(k - 1))

\* C7 (as claimed): a concurrent reader of the timeline file gets a complete
\* document, the previous one or the new one, never an empty or cut-off file.
C7_ReaderSeesCompleteFile ==
    reader_data.read => reader_data.ok

\* ----------------------------------------------- claims on the formatter

RenderPcs == {"read", "open_txt", "write_txt", "record"}
SweepInFlight(p) == s_pc \in RenderPcs /\ s_path = p
HandlerInFlight(p) == h_pc \in RenderPcs /\ h_path = p
SweepRecords == s_pc = "record" /\ s_pc' = "next"
HandlerRecords == h_pc = "record" /\ h_pc' = "idle"

\* C8 (as claimed): when the sweep finds a file malformed or unreadable, it
\* does not update processed_files, so the next pass tries the file again.
C8_MalformedNotRecorded ==
    [][(SweepRecords /\ ~s_data.ok) => processed_files' = processed_files]_vars

\* C9: once a whole pass has run with no file written since it began, later
\* passes render nothing and leave processed_files as it is.
C9_SecondPassIdle ==
    [][reconciled /\ reconciled' =>
          /\ processed_files' = processed_files
          /\ s_pc' \notin RenderPcs]_vars

\* C9 witness: a later pass reaches the check of a file the earlier pass
\* rendered and recorded.
C9_Witness ==
    /\ reconciled
    /\ s_pc = "check"
    /\ s_path = "a.json"
    /\ files["a.json"] = [mtime |-> 2, valid |-> TRUE]
    /\ txt["a.json"] = [ver |-> 2, complete |-> TRUE]
    /\ "a.json" \in DOMAIN processed_files
    /\ processed_files["a.json"] = 2

\* C10 (as claimed): the render of a path and the update of its entry are one
\* atomic step: no thread records a timestamp for a path while the other
\* thread is between the start of its render of that path and its own update.
C10_RenderUpdateAtomic ==
    [][/\ HandlerRecords => ~SweepInFlight(h_path)
       /\ SweepRecords => ~HandlerInFlight(s_path)]_vars

\* What follows from C10 with modification times that only grow: the entry of
\* a path never goes back to an older timestamp.
EntriesNeverGoBack ==
    [][\A p \in DOMAIN processed_files :
          processed_files'[p] >= processed_files[p]]_vars

\* ------------------------------------- claims on the single-pass pipeline

\* The distinct tags of a list of turns, in order of first appearance.
RECURSIVE FirstSeen(_, _)
FirstSeen(turns, seen) ==
    IF turns = <<>> THEN <<>>
    ELSE IF Head(turns).speaker \in seen THEN FirstSeen(Tail(turns), seen)
    ELSE <<Head(turns).speaker>> \o
         FirstSeen(Tail(turns), seen \cup {Head(turns).speaker})

AfterResolution == {"match", "save", "done"}

\* C11 (as claimed): the mapping pairs the i-th distinct tag of the turns with
\* start <= intro_duration, in order of first appearance in the turns list,
\* with the i-th name; other tags get no entry; the same on every run.
C11_PairedByFirstAppearance ==
    a_pc \in AfterResolution =>
        a_speaker_names =
            PairWithNames(FirstSeen(intro_speakers(a_turns), {}), a_names.value)

\* C12 (as claimed): when the name extraction fails, process_audio is not
\* aborted: it goes on with an empty mapping.
C12_ExtractorFailureDegrades ==
    ~a_names.ok => /\ a_pc # "raised"
                   /\ a_pc \in AfterResolution => a_speaker_names = EmptyMap

\* --------------------------------------------- claims on the window labels

\* "Speaker N" for the N-th distinct tag of the turns, by first appearance.
FirstSeenLabel(turns, tag) ==
    LET order == FirstSeen(turns, {})
    IN  "Speaker " \o ToString(CHOOSE n \in 1..Len(order) : order[n] = tag)

\* C13 (as claimed): within a window the tag of the first turn returned is
\* labelled "Speaker 1", the next previously unseen tag "Speaker 2", and so on.
C13_LabelsByFirstAppearance ==
    (cpc # "call" /\ BothReturned) =>
        \A j \in 1..Len(diarizer_result.value) :
            speaker_segments[j].speaker =
                FirstSeenLabel(diarizer_result.value, diarizer_result.value[j].speaker)

\* ----------------------------------------------- claims on the rendering

\* The lines the claim prescribes for segment i of a timeline: a speaker line
\* when i is first or its speaker differs from the one before, then always
\* the timestamp line and the text line.
LinesOfSegment(timeline, i) ==
    (IF i = 1 \/ timeline[i].speaker # timeline[i - 1].speaker
     THEN <<"\n[" \o timeline[i].speaker \o "]">> ELSE <<>>)
    \o <<timeline[i].timestamp, timeline[i].text \o "\n">>

RECURSIVE LinesOfSegments(_, _)
LinesOfSegments(timeline, n) ==
    IF n = 0 THEN <<>>
    ELSE LinesOfSegments(timeline, n - 1) \o LinesOfSegment(timeline, n)

\* C14: rendering a timeline read back from the JSON a pipeline wrote emits,
\* after the header, one speaker line per maximal run of segments with the same
\* speaker, and the timestamp line and the text line of every segment.
C14_HeaderPerSpeakerRun ==
    r_pc \in {"loop", "done"} =>
        /\ json_dump(r_data) = r_file
        /\ formatted_lines = HeaderLines \o LinesOfSegments(r_data, r_i - 1)
        /\ r_pc = "done" => r_i - 1 = Len(r_data) /\ r_txt = join(formatted_lines)

\* C14 witness: two segments of one speaker and then one of another were
\* rendered with two speaker lines: 3 header lines, 2 speaker lines, 6 others.
C14_Witness ==
    /\ r_pc = "done"
    /\ Len(r_data) = 3
    /\ r_data[1].speaker = r_data[2].speaker
    /\ r_data[2].speaker # r_data[3].speaker
    /\ Len(formatted_lines) = 11
    /\ formatted_lines[4] = "\n[" \o r_data[1].speaker \o "]"
    /\ formatted_lines[9] = "\n[" \o r_data[3].speaker \o "]"

\* ------------------------------- claims on the windows and their files

Ended == pc \in {"done", "raised"}

\* C15 (as claimed): on every way process_audio can end, each temporary window
\* file created for the run has been released by the cleanup, or its release
\* was attempted there and its failure swallowed.
C15_TempFilesReleased ==
    Ended => \A f \in temp_files : f.path \in remove_errors

BeforeCleanup == LoopPhase \cup {"cleanup", "cleanup_raise"}

\* C18: the windows are contiguous, do not overlap and cover the recording:
\* window n (counted from 1) is [(n-1)*W, min(n*W, L)), its start_time is
\* (n-1)*W in seconds, only the last may be shorter than W, none is empty.
C18_WindowsPartitionRecording ==
    pc \in BeforeCleanup =>
        LET W == chunk_length_ms
            L == audio_len
            N == Len(chunks)
        IN  /\ Cardinality(temp_files) = N
            /\ L = 0 => N = 0
            /\ L > 0 => N >= 1 /\ (N - 1) * W < L /\ L <= N * W
            /\ \A n \in 1..N :
                  /\ chunks[n].start_time * 1000 = (n - 1) * W
                  /\ \E f \in temp_files :
                        /\ f.path = chunks[n].path
                        /\ f.from = (n - 1) * W
                        /\ f.to = Min(n * W, L)
                        /\ f.from < f.to
                        /\ n < N => f.to - f.from = W

\* C18 witness: a recording one millisecond longer than a window was split
\* into a whole window and a window of one millisecond.
C18_Witness ==
    /\ pc = "loop"
    /\ audio_len = chunk_length_ms + 1
    /\ Len(chunks) = 2
    /\ chunks[2].start_time = chunk_size_mins * 60
    /\ [path |-> chunk_length_ms, from |-> chunk_length_ms, to |-> chunk_length_ms + 1]
           \in temp_files

\* ------------------------------------------- claims on the accumulation

Occurrences(x, list) == Cardinality({i \in 1..Len(list) : list[i] = x})
IsPermutation(a, b) ==
    /\ Len(a) = Len(b)
    /\ \A i \in 1..Len(a) : Occurrences(a[i], a) = Occurrences(a[i], b)
LastCheckpoint == IF checkpoints = <<>> THEN <<>> ELSE checkpoints[Len(checkpoints)]

\* C20: each checkpoint is the checkpoint before it followed by exactly the
\* segments resolved for its window; a window that did not fail gives one
\* resolved segment per transcribed segment; the final timeline is a
\* permutation of the last checkpoint.
C20_NoLossNoDuplication ==
    /\ \A n \in 1..Len(checkpoints) :
          checkpoints[n] =
              (IF n = 1 THEN <<>> ELSE checkpoints[n - 1]) \o chunk_returns[n]
    /\ \A n \in 1..Len(chunk_returns) :
          ~chunk_raised[n] =>
              /\ Len(chunk_returns[n]) = Len(chunk_transcribed[n])
              /\ \A i \in 1..Len(chunk_returns[n]) :
                    /\ chunk_returns[n][i].start =
                           chunk_transcribed[n][i].start + chunks[n].start_time
                    /\ chunk_returns[n][i].end =
                           chunk_transcribed[n][i].end + chunks[n].start_time
    /\ pc = "done" =>
          /\ Len(checkpoints) = Len(chunks)
          /\ out_file.closed
          /\ IsPermutation(out_file.text, LastCheckpoint)

\* C20 witness: two windows of two segments each were checkpointed, and the
\* final timeline holds the four segments in another order.
C20_Witness ==
    /\ pc = "done"
    /\ Len(checkpoints) = 2
    /\ Len(checkpoints[1]) = 2
    /\ Len(checkpoints[2]) = 4
    /\ Len(out_file.text) = 4
    /\ out_file.text # checkpoints[2]

\* ------------------------------------- claims on the sweep and the stop

\* C19 (as claimed): a thread that records a timestamp t for a path after a
\* render rendered the version of modification time t or a later one.
C19_RecordedVersionRendered ==
    [][/\ (HandlerRecords /\ h_data.ok) => h_data.ver >= processed_files'[h_path]
       /\ (SweepRecords /\ s_data.ok) => s_data.ver >= processed_files'[s_path]]_vars

\* C17 (as claimed): when the process has exited after the stop signal, no
\* text rendering is left truncated or partly written.
C17_StopLeavesNoPartialOutput ==
    (s_pc = "stopped" /\ h_pc = "stopped") => \A p \in Paths : txt[p].complete

Rendered(p, m) ==
    /\ txt[p] = [ver |-> m, complete |-> TRUE]
    /\ dict_get(processed_files, p, 0) = m

\* C16 (as claimed): if a file is left at a readable version m from some point
\* on and the watch is not stopped, then whatever became of the events, the
\* sweep eventually renders version m and records m.
C16_SweepCatchesMissedEvents ==
    \A p \in Paths : \A m \in 1..MaxMtime :
        (<>[](files[p] = [mtime |-> m, valid |-> TRUE]) /\ [](s_pc # "stopped"))
            => <>Rendered(p, m)

====
